---- MODULE Spec2Model ----
(***************************************************************************)
(* The user-input components of src/app/click-me.component.ts:             *)
(* ClickMeComponent, KeyUpComponent_v1 .. v4 and LittleTourComponent.      *)
(*                                                                         *)
(* A string is a sequence of one-character strings.  The components are    *)
(* independent classes that share nothing, so a behaviour follows one      *)
(* mounted component instance (chosen in Init); the fields of the other    *)
(* classes keep their initial values.  KeyUpComponent_v1 and _v2 both own  *)
(* a field `values`, _v3 and _v4 both own a field `value`; the variable    *)
(* of that name is the field of whichever of them is mounted.              *)
(*                                                                         *)
(* `log` is a history variable: the DOM events dispatched so far on the    *)
(* mounted component's elements, each with the content the input box had   *)
(* when the event fired.  No handler reads it.                             *)
(***************************************************************************)
EXTENDS Naturals, Sequences, FiniteSets

VARIABLES mounted, clickMessage, values, value, heroes, box, focused, log

vars == <<mounted, clickMessage, values, value, heroes, box, focused, log>>

\* Bounds of the model: DOM events per behaviour on a click or key-up
\* component, on the little tour, and characters in a typed box.
MaxEvents == 4
MaxCommits == 3
MaxLen == 3

----------------------------------------------------------------------------
\* String literals of the source.

Empty == <<>>
YouAreMyHero ==
    <<"Y","o","u"," ","a","r","e"," ","m","y"," ","h","e","r","o","!">>
Sep == <<" ", "|", " ">>
Windstorm == <<"W","i","n","d","s","t","o","r","m">>
Bombasto == <<"B","o","m","b","a","s","t","o">>
Magneta == <<"M","a","g","n","e","t","a">>
Tornado == <<"T","o","r","n","a","d","o">>
InitialHeroes == <<Windstorm, Bombasto, Magneta, Tornado>>

\* Inputs of the user.
Newt == <<"N","e","w","t">>
Blank == <<" ">>
Blanks == <<" ", " ">>
Chars == {"a", "b", "c"}
Keys == Chars \cup {"Backspace", "Enter"}
Candidates == {Empty, Blank, Blanks, Newt, Windstorm}

Components ==
    {"ClickMe", "KeyUp_v1", "KeyUp_v2", "KeyUp_v3", "KeyUp_v4", "LittleTour"}
WithInput == Components \ {"ClickMe"}

----------------------------------------------------------------------------
\* The <input> element: the content of the box after a key was pressed.
Edit(content, key) ==
    IF key \in Chars THEN Append(content, key)
    ELSE IF key = "Backspace" /\ content # Empty
         THEN SubSeq(content, 1, Len(content) - 1)
    ELSE content

\* A string of whitespace only ('' included).
IsBlank(s) == \A i \in 1..Len(s) : s[i] = " "

\* Mutant: the filter lets every key through, as (keyup) does.
KeyUpEnter_unfiltered(key) == TRUE

\* Angular's key filter: the pseudo-event keyup.enter fires for Enter only.
KeyUpEnter(key) == key = "Enter"

\* The DOM event of `type` (for a keyup, of `key`) fires while the input box
\* holds `content`.
Dispatched(type, key, content) ==
    log' = Append(log, [type |-> type, key |-> key, value |-> content])

\* Mutant: the candidate is trimmed before the test.
Truthy_trimmed(s) == ~IsBlank(s)

\* JavaScript's truthiness of a string: every string but '' is truthy.
Truthy(s) == s # Empty

----------------------------------------------------------------------------
\* The handlers.

\* Mutant: the click toggles the message.
onClickMe_toggle ==
    clickMessage' = IF clickMessage = Empty THEN YouAreMyHero ELSE Empty

onClickMe == clickMessage' = YouAreMyHero

\* Mutant: the separator is put before the value.
onKey_v1_sepFirst(event) == values' = values \o Sep \o event.target.value

onKey_v1(event) == values' = values \o event.target.value \o Sep

onKey_v2(v) == values' = values \o v \o Sep

\* Mutant: the entered content is accumulated, as onKey does.
onEnter_accumulate(v) == value' = value \o v

onEnter(v) == value' = v

\* Mutant: an empty box is not committed.
update_nonEmptyOnly(v) == value' = IF v = Empty THEN value ELSE v

update(v) == value' = v

\* Mutant: a name the list holds already is not added again.
addHero_dedup(newHero) ==
    IF Truthy(newHero) /\ \A i \in 1..Len(heroes) : heroes[i] # newHero
    THEN heroes' = Append(heroes, newHero)
    ELSE heroes' = heroes

\* Mutant: the new name is put first (unshift for push).
addHero_unshift(newHero) ==
    IF Truthy(newHero)
    THEN heroes' = <<newHero>> \o heroes
    ELSE heroes' = heroes

addHero(newHero) ==
    IF Truthy(newHero)
    THEN heroes' = Append(heroes, newHero)
    ELSE heroes' = heroes

\* Mutant: the two statements in the other order.
BlurStatement_clearFirst == box' = Empty /\ addHero(Empty)

\* (blur)="addHero(newHero.value); newHero.value='' "
BlurStatement == addHero(box) /\ box' = Empty

----------------------------------------------------------------------------
Init ==
    /\ mounted \in Components
    /\ clickMessage = Empty
    /\ values = Empty
    /\ value = Empty
    /\ heroes = InitialHeroes
    /\ box = Empty
    /\ focused = FALSE
    /\ log = <<>>

\* <button type="button" (click)="onClickMe()">
ClickButton ==
    /\ mounted = "ClickMe"
    /\ Len(log) < MaxEvents
    /\ onClickMe
    /\ Dispatched("click", "", Empty)
    /\ UNCHANGED <<mounted, values, value, heroes, box, focused>>

\* The user puts the cursor in the input box.
Focus ==
    /\ mounted \in WithInput
    /\ ~focused
    /\ focused' = TRUE
    /\ UNCHANGED <<mounted, clickMessage, values, value, heroes, box, log>>

\* <input (keyup)="onKey($event)">
KeyUp1(key) ==
    /\ mounted = "KeyUp_v1"
    /\ focused
    /\ Len(log) < MaxEvents
    /\ key \in Chars => Len(box) < MaxLen
    /\ LET content == Edit(box, key) IN
        /\ box' = content
        /\ onKey_v1([target |-> [value |-> content]])
        /\ Dispatched("keyup", key, content)
    /\ UNCHANGED <<mounted, clickMessage, value, heroes, focused>>

\* <input #box (keyup)="onKey(box.value)">
KeyUp2(key) ==
    /\ mounted = "KeyUp_v2"
    /\ focused
    /\ Len(log) < MaxEvents
    /\ key \in Chars => Len(box) < MaxLen
    /\ LET content == Edit(box, key) IN
        /\ box' = content
        /\ onKey_v2(content)
        /\ Dispatched("keyup", key, content)
    /\ UNCHANGED <<mounted, clickMessage, value, heroes, focused>>

\* <input #box (keyup.enter)="onEnter(box.value)">
KeyUp3(key) ==
    /\ mounted = "KeyUp_v3"
    /\ focused
    /\ Len(log) < MaxEvents
    /\ key \in Chars => Len(box) < MaxLen
    /\ LET content == Edit(box, key) IN
        /\ box' = content
        /\ IF KeyUpEnter(key) THEN onEnter(content) ELSE value' = value
        /\ Dispatched("keyup", key, content)
    /\ UNCHANGED <<mounted, clickMessage, values, heroes, focused>>

\* <input #box (keyup.enter)="update(box.value)" (blur)="update(box.value)">
KeyUp4(key) ==
    /\ mounted = "KeyUp_v4"
    /\ focused
    /\ Len(log) < MaxEvents
    /\ key \in Chars => Len(box) < MaxLen
    /\ LET content == Edit(box, key) IN
        /\ box' = content
        /\ IF KeyUpEnter(key) THEN update(content) ELSE value' = value
        /\ Dispatched("keyup", key, content)
    /\ UNCHANGED <<mounted, clickMessage, values, heroes, focused>>

\* Mutant: blur is bound to nothing, as in KeyUpComponent_v3.
Blur4_unbound ==
    /\ mounted = "KeyUp_v4"
    /\ focused
    /\ Len(log) < MaxEvents
    /\ focused' = FALSE
    /\ Dispatched("blur", "", box)
    /\ UNCHANGED <<mounted, clickMessage, values, value, heroes, box>>

Blur4 ==
    /\ mounted = "KeyUp_v4"
    /\ focused
    /\ Len(log) < MaxEvents
    /\ update(box)
    /\ focused' = FALSE
    /\ Dispatched("blur", "", box)
    /\ UNCHANGED <<mounted, clickMessage, values, heroes, box>>

\* The input of KeyUpComponent_v1, _v2 and _v3 loses the focus: their
\* templates bind no statement to blur.
BlurUnbound ==
    /\ mounted \in {"KeyUp_v1", "KeyUp_v2", "KeyUp_v3"}
    /\ focused
    /\ Len(log) < MaxEvents
    /\ focused' = FALSE
    /\ Dispatched("blur", "", box)
    /\ UNCHANGED <<mounted, clickMessage, values, value, heroes, box>>

\* The user types a name into <input #newHero>; the template of
\* LittleTourComponent binds no statement to the keys but Enter.
TourType(s) ==
    /\ mounted = "LittleTour"
    /\ focused
    /\ box # s
    /\ box' = s
    /\ UNCHANGED <<mounted, clickMessage, values, value, heroes, focused, log>>

\* (keyup.enter)="addHero(newHero.value)"
TourEnter ==
    /\ mounted = "LittleTour"
    /\ focused
    /\ Len(log) < MaxCommits
    /\ addHero(box)
    /\ Dispatched("keyup", "Enter", box)
    /\ UNCHANGED <<mounted, clickMessage, values, value, box, focused>>

TourBlur ==
    /\ mounted = "LittleTour"
    /\ focused
    /\ Len(log) < MaxCommits
    /\ BlurStatement
    /\ focused' = FALSE
    /\ Dispatched("blur", "", box)
    /\ UNCHANGED <<mounted, clickMessage, values, value>>

\* <button type="button" (click)="addHero(newHero.value)">Add</button>
TourClick ==
    /\ mounted = "LittleTour"
    /\ Len(log) < MaxCommits
    /\ addHero(box)
    /\ Dispatched("click", "", box)
    /\ UNCHANGED <<mounted, clickMessage, values, value, box, focused>>

Next ==
    \/ ClickButton
    \/ Focus
    \/ \E key \in Keys : KeyUp1(key)
    \/ \E key \in Keys : KeyUp2(key)
    \/ \E key \in Keys : KeyUp3(key)
    \/ \E key \in Keys : KeyUp4(key)
    \/ Blur4
    \/ BlurUnbound
    \/ \E s \in Candidates : TourType(s)
    \/ TourEnter
    \/ TourBlur
    \/ TourClick

Spec == Init /\ [][Next]_vars

----------------------------------------------------------------------------
\* Reading the history.

Last(s) == s[Len(s)]

\* An event was dispatched in this step.
Stepped == Len(log') = Len(log) + 1

IsKeyUp(e) == e.type = "keyup"
IsEnter(e) == e.type = "keyup" /\ e.key = "Enter"
IsBlur(e) == e.type = "blur"
IsClick(e) == e.type = "click"

Max(S) == CHOOSE m \in S : \A n \in S : n <= m

\* The box content at the latest event of l whose index is in idx, '' if none.
ContentAtLatest(l, idx) == IF idx = {} THEN Empty ELSE l[Max(idx)].value

Enters(l) == {i \in 1..Len(l) : IsEnter(l[i])}
EntersAndBlurs(l) == {i \in 1..Len(l) : IsEnter(l[i]) \/ IsBlur(l[i])}
Commits(l) ==
    {i \in 1..Len(l) : IsEnter(l[i]) \/ IsBlur(l[i]) \/ IsClick(l[i])}

\* The box contents at the keyup events of l, in order.
KeyUpContents(l) ==
    LET ups == SelectSeq(l, IsKeyUp) IN [i \in 1..Len(ups) |-> ups[i].value]

RECURSIVE Joined(_)
\* Each string of ss followed by ' | ', in order.
Joined(ss) ==
    IF ss = <<>> THEN Empty
    ELSE Joined(SubSeq(ss, 1, Len(ss) - 1)) \o Last(ss) \o <<" ", "|", " ">>

\* t is s with x as a new last element, the elements of s kept in place.
Extends(t, s, x) ==
    /\ Len(t) = Len(s) + 1
    /\ t[Len(t)] = x
    /\ \A i \in 1..Len(s) : t[i] = s[i]

----------------------------------------------------------------------------
\* C1: addHero('') leaves heroes unchanged; addHero(s) for a non-empty s
\* makes heroes the previous heroes with s appended as the last element, the
\* prior elements kept in their order; from the initial list addHero("Newt")
\* yields ["Windstorm","Bombasto","Magneta","Tornado","Newt"].
C1_AddHeroAppends ==
    [][mounted = "LittleTour" /\ Stepped =>
        LET s == Last(log').value IN
          /\ s = Empty => heroes' = heroes
          /\ s # Empty => Extends(heroes', heroes, s)
          /\ (heroes = InitialHeroes /\ s = Newt) =>
                heroes' = <<Windstorm, Bombasto, Magneta, Tornado, Newt>>]_vars

C1_Witness ==
    /\ mounted = "LittleTour"
    /\ Len(log) = 1
    /\ log[1].value = Newt
    /\ heroes = <<Windstorm, Bombasto, Magneta, Tornado, Newt>>

\* C2 as stated: for every candidate that consists only of whitespace (the
\* empty string included) addHero produces no change to heroes.
C2_Original ==
    [][(mounted = "LittleTour" /\ Stepped /\ IsBlank(Last(log').value)) =>
        heroes' = heroes]_vars

\* C2 amended: addHero produces no change to heroes for the empty string and
\* only for it; a non-empty candidate of whitespace only is appended
\* untrimmed, as any other non-empty string is.
C2_OnlyEmptyRejected ==
    [][mounted = "LittleTour" /\ Stepped =>
        LET s == Last(log').value IN
          /\ heroes' = heroes <=> s = Empty
          /\ (IsBlank(s) /\ s # Empty) => Extends(heroes', heroes, s)]_vars

C2_Witness ==
    /\ mounted = "LittleTour"
    /\ Len(log) = 2
    /\ log[1].value = Empty
    /\ log[2].value = Blanks
    /\ heroes = <<Windstorm, Bombasto, Magneta, Tornado, Blanks>>

\* C3: in KeyUpComponent_v3 a keyup of a key other than Enter leaves value
\* unchanged and a keyup of Enter with box content X sets value to X: value
\* is the box content at the most recent Enter, '' if Enter was never pressed.
C3_ValueAtLastEnter ==
    mounted = "KeyUp_v3" => value = ContentAtLatest(log, Enters(log))

C3_Witness ==
    /\ mounted = "KeyUp_v3"
    /\ Len(log) = 4
    /\ IsEnter(log[2]) /\ log[2].value = <<"a">>
    /\ ~IsEnter(log[3]) /\ ~IsEnter(log[4])
    /\ box = <<"a", "b", "c">>
    /\ value = <<"a">>

\* C4: in KeyUpComponent_v4 a blur with box content Y sets value to Y even
\* if Enter was never pressed; value is the box content at the most recent
\* Enter or blur, so once the focus has left the control no edit is lost.
C4_ValueAtLastEnterOrBlur ==
    mounted = "KeyUp_v4" =>
        /\ value = ContentAtLatest(log, EntersAndBlurs(log))
        /\ ~focused => value = box

C4_Witness ==
    /\ mounted = "KeyUp_v4"
    /\ Enters(log) = {}
    /\ Len(log) = 3
    /\ IsBlur(log[3])
    /\ ~focused
    /\ value = <<"a", "b">>

\* C5: in KeyUpComponent_v1 and _v2, after keyups whose box contents are
\* v1, ..., vn, values is each vi followed by ' | ', in event order; for
\* "a", "ab", "abc" it is "a | ab | abc | ".
C5_Accumulator ==
    mounted \in {"KeyUp_v1", "KeyUp_v2"} =>
        /\ values = Joined(KeyUpContents(log))
        /\ KeyUpContents(log) = << <<"a">>, <<"a","b">>, <<"a","b","c">> >> =>
              values = <<"a"," ","|"," ","a","b"," ","|"," ",
                         "a","b","c"," ","|"," ">>

C5_Witness ==
    /\ mounted = "KeyUp_v1"
    /\ KeyUpContents(log) = << <<"a">>, <<"a","b">>, <<"a","b","c">> >>
    /\ values = <<"a"," ","|"," ","a","b"," ","|"," ","a","b","c"," ","|"," ">>

\* C6: clickMessage is '' until the first click and the literal
\* "You are my hero!" after every click, the first and the later ones.
C6_ClickMessage ==
    clickMessage =
        IF mounted = "ClickMe" /\ log # <<>> THEN YouAreMyHero ELSE Empty

C6_Witness ==
    /\ mounted = "ClickMe"
    /\ Len(log) = 2
    /\ IsClick(log[1]) /\ IsClick(log[2])
    /\ clickMessage = YouAreMyHero

\* The events the mounted component's template binds to a handler.
HandlerBound(e) ==
    CASE mounted = "ClickMe" -> IsClick(e)
      [] mounted \in {"KeyUp_v1", "KeyUp_v2"} -> IsKeyUp(e)
      [] mounted = "KeyUp_v3" -> IsEnter(e)
      [] mounted = "KeyUp_v4" -> IsEnter(e) \/ IsBlur(e)
      [] mounted = "LittleTour" -> IsEnter(e) \/ IsBlur(e) \/ IsClick(e)

\* The fields of the component classes.
Fields == <<clickMessage, values, value, heroes>>

\* This step runs a handler on the trigger, with the value, that the
\* previous handler invocation had.
Repeat ==
    /\ log # <<>>
    /\ Stepped
    /\ Last(log') = Last(log)
    /\ HandlerBound(Last(log))

\* C7 as stated: for each of onClickMe, onKey, onEnter, update and addHero,
\* the same trigger with the same value twice in a row leaves the component
\* in the state that applying it once does.
C7_Original == [][Repeat => Fields' = Fields]_vars

\* C7 amended: onClickMe, onEnter and update, and addHero with the empty
\* string, leave the component as the first application left it; a repeated
\* onKey appends the value and the separator again, and a repeated addHero of
\* a non-empty string appends it again.
C7_IdempotentSetters ==
    [][Repeat =>
        LET v == Last(log).value IN
          IF mounted \in {"KeyUp_v1", "KeyUp_v2"}
          THEN values' = values \o v \o <<" ", "|", " ">>
          ELSE IF mounted = "LittleTour" /\ v # Empty
          THEN Extends(heroes', heroes, v)
          ELSE Fields' = Fields]_vars

C7_Witness ==
    /\ mounted = "KeyUp_v3"
    /\ Len(log) = 3
    /\ IsEnter(log[2])
    /\ log[3] = log[2]
    /\ value = <<"a">>

\* C8 as stated: in KeyUpComponent_v3 and _v4 the displayed value is the box
\* content at the most recent event among click, Enter and blur ('' if none).
C8_Original ==
    mounted \in {"KeyUp_v3", "KeyUp_v4"} =>
        value = ContentAtLatest(log, Commits(log))

\* C8 amended: the displayed value is the box content at the most recent
\* event the component's template binds to a handler ('' if none): Enter in
\* KeyUpComponent_v3, Enter or blur in KeyUpComponent_v4.  A blur of _v3
\* commits nothing.
C8_ValueAtLastBoundEvent ==
    mounted \in {"KeyUp_v3", "KeyUp_v4"} =>
        value = ContentAtLatest(log,
                    {i \in 1..Len(log) : HandlerBound(log[i])})

C8_Witness ==
    /\ mounted = "KeyUp_v3"
    /\ Len(log) = 4
    /\ IsEnter(log[2]) /\ log[2].value = <<"a">>
    /\ IsBlur(log[4]) /\ log[4].value = <<"a", "b">>
    /\ value = <<"a">>

\* The events of l that fired with a non-empty box.
NonEmptyCount(l) == Cardinality({i \in 1..Len(l) : l[i].value # Empty})

\* C9: committing the same non-empty value k times in a row increases the
\* length of heroes by exactly k, each commit appending one entry, also when
\* the list holds the value already.
C9_NoDedup ==
    mounted = "LittleTour" =>
        \A k \in 1..Len(log) :
            LET n == Len(log)
                v == log[n].value
            IN  (v # Empty /\ \A i \in (n - k + 1)..n : log[i].value = v) =>
                  /\ Len(heroes) = Len(InitialHeroes)
                                     + NonEmptyCount(SubSeq(log, 1, n - k)) + k
                  /\ \A j \in 1..k : heroes[Len(heroes) - k + j] = v

C9_Witness ==
    /\ mounted = "LittleTour"
    /\ Len(log) = 3
    /\ \A i \in 1..3 : log[i].value = Windstorm
    /\ heroes = InitialHeroes \o <<Windstorm, Windstorm, Windstorm>>

\* C10: a blur of the little tour's input calls addHero with the box content
\* and then clears the box: after it the box is empty, a non-empty content
\* is the last element of heroes, and a blur of an empty box changes neither
\* heroes nor the box.  Enter and the Add click leave the box as it is.
C10_BlurAddsThenClears ==
    [][mounted = "LittleTour" /\ Stepped =>
        LET e == Last(log') IN
          /\ IsBlur(e) =>
                /\ e.value = box
                /\ box' = Empty
                /\ box # Empty => Extends(heroes', heroes, box)
                /\ box = Empty => heroes' = heroes /\ box' = box
          /\ ~IsBlur(e) => box' = box]_vars

C10_Witness ==
    /\ mounted = "LittleTour"
    /\ log # <<>>
    /\ IsBlur(Last(log))
    /\ Last(log).value = Newt
    /\ box = Empty
    /\ heroes = Append(InitialHeroes, Newt)

====
